---- MODULE Spec2Model ----
(***************************************************************************)
(* Classic ACL manager (gd/rust/acl/src/classic/mod.rs).                   *)
(*                                                                         *)
(* The Coordinator task (the loop spawned by provide_acl_manager) owns     *)
(* `pending` and `connect_queue` and shares the `connections` registry     *)
(* with one run_connection task per established handle.  The controller    *)
(* is the environment: it answers every attempt it knows of (a             *)
(* CreateConnection command it received, a ConnectionRequest it raised)    *)
(* with one ConnectionComplete, and owns the handle values.                *)
(***************************************************************************)
EXTENDS Naturals, Sequences, FiniteSets

VARIABLES
    coord,          \* the Coordinator task: "running", "sending", "returned", "panicked"
    pending,        \* PendingConnect
    connect_queue,  \* Vec<Address>
    connections,    \* HashMap<u16, ConnectionInternal>, NoEntry where absent
    lock,           \* the connections mutex: 0 if free, else the handle dispatch_to sends to
    actor,          \* run_connection task per handle: "none", "alive", "panicked"
    actor_evt,      \* reason of the DisconnectionComplete a task has received, "-" if none
    evt_chan,       \* core.evt_rx of each run_connection task
    conn,           \* the caller's Connection per handle: "none", "held", "dropped"
    req,            \* the caller's disconnect request per handle and its one-shot reply
    ctlAttempts,    \* controller: attempts not yet answered, <<address, direction>>
    ctlLink,        \* controller: address linked on each handle, 0 if free
    sent,           \* HCI commands sent by the last step
    emitted,        \* Events sent on conn_evt_tx by the last step
    delivered,      \* ConnectionEvents sent on an actor's evt_tx by the last step
    last,           \* the branch the last step took
    unanswered,     \* history: addresses sent a CreateConnection and no ConnectionComplete since
    cancelled,      \* history: address sent a CreateConnectionCancel and no ConnectionComplete since
    deferred        \* history: <<b, a>> while queued b waits behind the attempt on a

vars == <<coord, pending, connect_queue, connections, lock, actor, actor_evt, evt_chan,
          conn, req, ctlAttempts, ctlLink, sent, emitted, delivered, last,
          unanswered, cancelled, deferred>>

hist == <<unanswered, cancelled, deferred>>

\* what belongs to the run_connection tasks and to the owners of their Connections
tasks == <<actor, actor_evt, evt_chan, conn, req>>

(* ------------------------------ bounds -------------------------------- *)

NumAddr == 2
NumHandles == 1
MaxQueue == 2
MaxAttempts == 2
ChanCap == 1

Address == 1..NumAddr
Handle == 1..NumHandles

(* ------------------------------ types --------------------------------- *)

\* ErrorCode: Success and the non-success codes of a ConnectionComplete status
\* or a DisconnectionComplete reason
Failures == {"PageTimeout", "ConnectionTimeout"}
ErrorCode == {"Success"} \cup Failures

\* DisconnectReason of Connection::disconnect
DisconnectReason == {"RemoteUserTerminatedConnection", "RemoteDevicePowerOff"}

\* the attempts a controller answers: a CreateConnection ("local"), a
\* ConnectionRequest the host accepted ("remote") or rejected ("rejected")
Direction == {"local", "remote", "rejected"}

\* enum PendingConnect { Outgoing(Address), Incoming(Address), None }
Outgoing(a) == [kind |-> "Outgoing", addr |-> a]
Incoming(a) == [kind |-> "Incoming", addr |-> a]
None == [kind |-> "None", addr |-> 0]

\* struct ConnectionInternal { addr, shared: { role }, hci_evt_tx }
ConnectionInternal(a, r) == [addr |-> a, role |-> r]
NoEntry == [addr |-> 0, role |-> "-"]

\* enum Event { ConnectSuccess(Connection), ConnectFail { addr, reason } }
ConnectSuccess(a, h, r) ==
    [evt |-> "ConnectSuccess", addr |-> a, handle |-> h, role |-> r, reason |-> "Success"]

\* a ConnectFail that reports one fixed reason
ConnectFailFixedReason(a, s) ==
    [evt |-> "ConnectFail", addr |-> a, handle |-> 0, role |-> "-", reason |-> "PageTimeout"]

ConnectFail(a, s) ==
    [evt |-> "ConnectFail", addr |-> a, handle |-> 0, role |-> "-", reason |-> s]

\* enum ConnectionEvent { Disconnected(ErrorCode), AuthenticationComplete }
ConnectionEvent(e, h, r) == [evt |-> e, handle |-> h, reason |-> r]

\* the controller events a run_connection task reads from core.evt_rx
DisconnectionComplete(r) == [evt |-> "DisconnectionComplete", reason |-> r]
AuthenticationComplete == [evt |-> "AuthenticationComplete", reason |-> "-"]

\* ConnectionRequest::Disconnect { reason, fut } and the state of its one-shot reply:
\* "queued" in req_rx, "taken" by the task, "acked" (fut.send(())), "failed" (fut dropped)
NoRequest == [state |-> "none", reason |-> "-"]
ConnectionRequest(s, r) == [state |-> s, reason |-> r]

\* HCI commands built by the Coordinator and the run_connection tasks
Command(c, a, h, r) == [cmd |-> c, addr |-> a, handle |-> h, reason |-> r]
CreateConnection(a) == Command("CreateConnection", a, 0, "-")
CreateConnectionCancel(a) == Command("CreateConnectionCancel", a, 0, "-")
AcceptConnectionRequest(a) == Command("AcceptConnectionRequest", a, 0, "BecomeCentral")
RejectConnectionRequest(a) == Command("RejectConnectionRequest", a, 0, "UnacceptableBdAddr")

\* a Disconnect that names no connection
DisconnectNoHandle(h, r) == Command("Disconnect", 0, 0, r)

\* DisconnectBuilder { connection_handle: handle, reason }
Disconnect(h, r) == Command("Disconnect", 0, h, r)

(* ----------------------------- helpers -------------------------------- *)

\* connections.lock().await.values().any(|c| c.addr == addr)
AddrConnected(addr) == \E h \in Handle : connections[h].addr = addr

\* connect_queue.insert(0, addr)
QueueInsert(q, addr) == <<addr>> \o q

\* a retain that stops at the first match
RetainFirstOnly(q, addr) ==
    IF \E i \in 1..Len(q) : q[i] = addr
    THEN LET k == CHOOSE i \in 1..Len(q) : q[i] = addr /\ \A j \in 1..(i - 1) : q[j] # addr
         IN  SubSeq(q, 1, k - 1) \o SubSeq(q, k + 1, Len(q))
    ELSE q

\* connect_queue.retain(|p| *p != addr)
Retain(q, addr) == SelectSeq(q, LAMBDA p : p # addr)

\* addr occurs in the sequence q
Contains(q, addr) == \E i \in 1..Len(q) : q[i] = addr

\* a match that takes whatever is pending as the request of addr
RoleOfAnyPending(p, addr) ==
    IF p.kind = "Incoming" THEN "Peripheral" ELSE "Central"

\* the role a ConnectionComplete for addr gets from pending.take()
RoleOf(p, addr) ==
    IF p = Outgoing(addr) THEN "Central"
    ELSE IF p = Incoming(addr) THEN "Peripheral"
    ELSE "panic"

\* an answer that does not look at the registry
RequestAnswerNoLookup(addr) == AcceptConnectionRequest(addr)

\* the command a ConnectionRequest for addr is answered with
RequestAnswer(addr) ==
    IF AddrConnected(addr) THEN RejectConnectionRequest(addr)
    ELSE AcceptConnectionRequest(addr)

\* the caller of Connection::disconnect on handle h waits for its reply
Waiting(h) == req[h].state \in {"queued", "taken"}

\* what becomes of the request of handle h when its task ends: req_rx and any fut
\* in it are dropped, so a caller still waiting gets an error from rx.await
RequestAtExit(h) == IF Waiting(h) THEN ConnectionRequest("failed", "-") ELSE NoRequest

(* ------------------------------- Init --------------------------------- *)

Init ==
    /\ coord = "running"
    /\ pending = None
    /\ connect_queue = <<>>
    /\ connections = [h \in Handle |-> NoEntry]
    /\ lock = 0
    /\ actor = [h \in Handle |-> "none"]
    /\ actor_evt = [h \in Handle |-> "-"]
    /\ evt_chan = [h \in Handle |-> <<>>]
    /\ conn = [h \in Handle |-> "none"]
    /\ req = [h \in Handle |-> NoRequest]
    /\ ctlAttempts = {}
    /\ ctlLink = [h \in Handle |-> 0]
    /\ sent = <<>>
    /\ emitted = <<>>
    /\ delivered = <<>>
    /\ last = "init"
    /\ unanswered = {}
    /\ cancelled = 0
    /\ deferred = <<>>

\* the Coordinator task ends: its locals (pending, connect_queue) go with it
CoordinatorEnds(how) ==
    /\ coord' = how
    /\ pending' = None
    /\ connect_queue' = <<>>
    /\ unanswered' = {}
    /\ cancelled' = 0
    /\ deferred' = <<>>

(* ------------------------ Coordinator: requests ----------------------- *)

\* Request::Connect { addr }
Connect(addr) ==
    /\ coord = "running"
    /\ emitted' = <<>>
    /\ delivered' = <<>>
    /\ UNCHANGED <<connections, lock, ctlLink>>
    /\ UNCHANGED tasks
    /\ IF AddrConnected(addr)
       THEN \* warn!("already connected: {}", addr); return;
            /\ CoordinatorEnds("returned")
            /\ sent' = <<>>
            /\ last' = "connect:already"
            /\ UNCHANGED ctlAttempts
       ELSE IF pending = None
       THEN /\ pending' = Outgoing(addr)
            /\ sent' = <<CreateConnection(addr)>>
            /\ Cardinality(ctlAttempts) < MaxAttempts
            /\ ctlAttempts' = ctlAttempts \cup {<<addr, "local">>}
            /\ unanswered' = unanswered \cup {addr}
            /\ last' = "connect:create"
            /\ UNCHANGED <<coord, connect_queue, cancelled, deferred>>
       ELSE /\ Len(connect_queue) < MaxQueue
            /\ connect_queue' = QueueInsert(connect_queue, addr)
            /\ deferred' = <<addr, pending.addr>>
            /\ sent' = <<>>
            /\ last' = "connect:queue"
            /\ UNCHANGED <<coord, pending, ctlAttempts, unanswered, cancelled>>

\* Request::CancelConnect { addr, fut }
CancelConnect(addr) ==
    /\ coord = "running"
    /\ emitted' = <<>>
    /\ delivered' = <<>>
    /\ connect_queue' = Retain(connect_queue, addr)
    /\ deferred' = IF deferred # <<>> /\ deferred[1] = addr THEN <<>> ELSE deferred
    /\ IF pending = Outgoing(addr)
       THEN /\ sent' = <<CreateConnectionCancel(addr)>>
            /\ cancelled' = addr
            /\ last' = "cancel:pending"
       ELSE /\ sent' = <<>>
            /\ last' = IF Contains(connect_queue, addr) THEN "cancel:queued" ELSE "cancel:none"
            /\ UNCHANGED cancelled
    /\ UNCHANGED <<coord, pending, connections, lock, ctlAttempts, ctlLink, unanswered>>
    /\ UNCHANGED tasks

(* ------------------- Coordinator: controller events ------------------- *)

\* what the controller may report: an attempt it has not answered yet; Success only
\* on a handle it has free, for an address it has no link to, and never for a
\* request the host rejected
MayComplete(addr, dir, status, handle) ==
    /\ <<addr, dir>> \in ctlAttempts
    /\ IF status = "Success"
       THEN /\ handle \in Handle
            /\ dir # "rejected"
            /\ ctlLink[handle] = 0
            /\ \A h \in Handle : ctlLink[h] # addr
       ELSE handle = 0

\* ConnectionComplete(evt)
ConnectionCompleteEvt(addr, dir, status, handle) ==
    /\ coord = "running"
    /\ MayComplete(addr, dir, status, handle)
    /\ sent' = <<>>
    /\ delivered' = <<>>
    /\ ctlLink' = IF status = "Success" THEN [ctlLink EXCEPT ![handle] = addr] ELSE ctlLink
    /\ ctlAttempts' = ctlAttempts \ {<<addr, dir>>}
    /\ UNCHANGED <<lock, actor_evt>>
    /\ LET role == RoleOf(pending, addr) IN
       IF role = "panic"
       THEN \* panic!("No prior connection request for {}", addr)
            /\ CoordinatorEnds("panicked")
            /\ emitted' = <<>>
            /\ last' = "complete:nomatch"
            /\ UNCHANGED <<connections, actor, evt_chan, conn, req>>
       ELSE IF status = "Success" /\ connections[handle] # NoEntry
       THEN \* assert!(connections.lock().await.insert(handle, ..).is_none())
            /\ CoordinatorEnds("panicked")
            /\ connections' = [connections EXCEPT ![handle] = ConnectionInternal(addr, role)]
            /\ emitted' = <<>>
            /\ last' = "complete:assert"
            /\ UNCHANGED <<actor, evt_chan, conn, req>>
       ELSE /\ pending' = None              \* pending.take()
            /\ unanswered' = unanswered \ {addr}
            /\ cancelled' = IF cancelled = addr THEN 0 ELSE cancelled
            /\ deferred' = IF deferred # <<>> /\ deferred[2] = addr THEN <<>> ELSE deferred
            /\ UNCHANGED <<coord, connect_queue>>
            /\ IF status = "Success"
               THEN \* insert; rt.spawn(run_connection(..)); conn_evt_tx.send(ConnectSuccess(..))
                    /\ connections' = [connections EXCEPT ![handle] = ConnectionInternal(addr, role)]
                    /\ actor' = [actor EXCEPT ![handle] = "alive"]
                    /\ evt_chan' = [evt_chan EXCEPT ![handle] = <<>>]
                    /\ conn' = [conn EXCEPT ![handle] = "held"]
                    /\ req' = [req EXCEPT ![handle] = NoRequest]
                    /\ emitted' = <<ConnectSuccess(addr, handle, role)>>
                    /\ last' = "complete:success"
               ELSE /\ emitted' = <<ConnectFail(addr, status)>>
                    /\ last' = "complete:fail"
                    /\ UNCHANGED <<connections, actor, evt_chan, conn, req>>

\* EventChild::ConnectionRequest(evt)
ConnectionRequestEvt(addr) ==
    /\ coord = "running"
    /\ <<addr, "remote">> \notin ctlAttempts
    /\ <<addr, "rejected">> \notin ctlAttempts
    /\ Cardinality(ctlAttempts) < MaxAttempts
    /\ emitted' = <<>>
    /\ delivered' = <<>>
    /\ pending' = Incoming(addr)
    /\ sent' = <<RequestAnswer(addr)>>
    /\ IF RequestAnswer(addr).cmd = "RejectConnectionRequest"
       THEN /\ ctlAttempts' = ctlAttempts \cup {<<addr, "rejected">>}
            /\ last' = "request:reject"
       ELSE /\ ctlAttempts' = ctlAttempts \cup {<<addr, "remote">>}
            /\ last' = "request:accept"
    /\ UNCHANGED <<coord, connect_queue, connections, lock, ctlLink>>
    /\ UNCHANGED tasks
    /\ UNCHANGED hist

\* AuthenticationComplete(e) => dispatch_to(e.get_connection_handle(), &connections, evt):
\* the guard of connections.lock() lives until the end of the `if let`
AuthenticationCompleteEvt(handle) ==
    /\ coord = "running"
    /\ sent' = <<>>
    /\ emitted' = <<>>
    /\ delivered' = <<>>
    /\ UNCHANGED <<connections, actor, actor_evt, conn, req, ctlLink, ctlAttempts>>
    /\ IF connections[handle] = NoEntry
       THEN /\ last' = "auth:unknown"
            /\ UNCHANGED <<coord, pending, connect_queue, lock, evt_chan>>
            /\ UNCHANGED hist
       ELSE IF actor[handle] # "alive"
       THEN \* c.hci_evt_tx.send(event).await.unwrap() on a closed channel
            /\ CoordinatorEnds("panicked")
            /\ last' = "auth:closed"
            /\ UNCHANGED <<lock, evt_chan>>
       ELSE IF Len(evt_chan[handle]) < ChanCap
       THEN /\ evt_chan' = [evt_chan EXCEPT ![handle] = Append(@, AuthenticationComplete)]
            /\ last' = "auth:forward"
            /\ UNCHANGED <<coord, pending, connect_queue, lock>>
            /\ UNCHANGED hist
       ELSE \* the channel is full: send(event).await suspends with the guard held
            /\ coord' = "sending"
            /\ lock' = handle
            /\ last' = "auth:suspended"
            /\ UNCHANGED <<pending, connect_queue, evt_chan>>
            /\ UNCHANGED hist

\* dispatch_to resumes: hci_evt_tx.send(event) completes, then the guard is dropped
DispatchToSend(handle) ==
    /\ coord = "sending"
    /\ lock = handle
    /\ lock' = 0
    /\ sent' = <<>>
    /\ emitted' = <<>>
    /\ delivered' = <<>>
    /\ UNCHANGED <<connections, actor, actor_evt, conn, req, ctlLink, ctlAttempts>>
    /\ IF actor[handle] # "alive"
       THEN \* the receiver was dropped meanwhile: send returns Err, unwrap panics
            /\ CoordinatorEnds("panicked")
            /\ last' = "dispatch:closed"
            /\ UNCHANGED evt_chan
       ELSE /\ Len(evt_chan[handle]) < ChanCap
            /\ evt_chan' = [evt_chan EXCEPT ![handle] = Append(@, AuthenticationComplete)]
            /\ coord' = "running"
            /\ last' = "dispatch:forward"
            /\ UNCHANGED <<pending, connect_queue>>
            /\ UNCHANGED hist

(* --------------------------- run_connection --------------------------- *)

\* Some(evt) = core.evt_rx.recv()
ActorEvent(handle) ==
    /\ actor[handle] = "alive"
    /\ actor_evt[handle] = "-"
    /\ req[handle].state # "taken"
    /\ evt_chan[handle] # <<>>
    /\ sent' = <<>>
    /\ emitted' = <<>>
    /\ UNCHANGED <<coord, pending, connect_queue, connections, lock, ctlAttempts, ctlLink>>
    /\ UNCHANGED hist
    /\ IF Head(evt_chan[handle]).evt = "DisconnectionComplete"
       THEN \* DisconnectionComplete(evt) => connections.lock().await ..
            /\ actor_evt' = [actor_evt EXCEPT ![handle] = Head(evt_chan[handle]).reason]
            /\ evt_chan' = [evt_chan EXCEPT ![handle] = Tail(@)]
            /\ delivered' = <<>>
            /\ last' = "actor:recv_disconnection"
            /\ UNCHANGED <<actor, conn, req>>
       ELSE \* AuthenticationComplete(_) => evt_tx.send(..).await.unwrap()
            /\ UNCHANGED actor_evt
            /\ IF conn[handle] = "held"
               THEN /\ delivered' = <<ConnectionEvent("AuthenticationComplete", handle, "-")>>
                    /\ evt_chan' = [evt_chan EXCEPT ![handle] = Tail(@)]
                    /\ last' = "actor:auth"
                    /\ UNCHANGED <<actor, conn, req>>
               ELSE /\ delivered' = <<>>
                    /\ evt_chan' = [evt_chan EXCEPT ![handle] = <<>>]
                    /\ actor' = [actor EXCEPT ![handle] = "panicked"]
                    /\ conn' = [conn EXCEPT ![handle] = "none"]
                    /\ req' = [req EXCEPT ![handle] = RequestAtExit(handle)]
                    /\ last' = "actor:auth_panic"

\* .. remove(&handle); evt_tx.send(Disconnected(evt.get_reason())).await.unwrap(); return
ActorRemove(handle) ==
    /\ actor[handle] = "alive"
    /\ actor_evt[handle] # "-"
    /\ lock = 0
    /\ sent' = <<>>
    /\ emitted' = <<>>
    /\ connections' = [connections EXCEPT ![handle] = NoEntry]
    /\ actor_evt' = [actor_evt EXCEPT ![handle] = "-"]
    /\ evt_chan' = [evt_chan EXCEPT ![handle] = <<>>]
    /\ conn' = [conn EXCEPT ![handle] = "none"]
    /\ req' = [req EXCEPT ![handle] = RequestAtExit(handle)]
    /\ IF conn[handle] = "held"
       THEN /\ delivered' = <<ConnectionEvent("Disconnected", handle, actor_evt[handle])>>
            /\ actor' = [actor EXCEPT ![handle] = "none"]
            /\ last' = "actor:disconnected"
       ELSE /\ delivered' = <<>>
            /\ actor' = [actor EXCEPT ![handle] = "panicked"]
            /\ last' = "actor:disconnected_panic"
    /\ UNCHANGED <<coord, pending, connect_queue, lock, ctlAttempts, ctlLink>>
    /\ UNCHANGED hist

\* Some(req) = req_rx.recv(): hci.send(DisconnectBuilder { connection_handle, reason })
ActorRequest(handle) ==
    /\ actor[handle] = "alive"
    /\ actor_evt[handle] = "-"
    /\ req[handle].state = "queued"
    /\ sent' = <<Disconnect(handle, req[handle].reason)>>
    /\ req' = [req EXCEPT ![handle] = ConnectionRequest("taken", "-")]
    /\ emitted' = <<>>
    /\ delivered' = <<>>
    /\ last' = "actor:disconnect"
    /\ UNCHANGED <<coord, pending, connect_queue, connections, lock, actor, actor_evt,
                   evt_chan, conn, ctlAttempts, ctlLink>>
    /\ UNCHANGED hist

\* .. hci.send(..).await returns; fut.send(()).unwrap()
ActorAck(handle) ==
    /\ actor[handle] = "alive"
    /\ req[handle].state = "taken"
    /\ req' = [req EXCEPT ![handle] = ConnectionRequest("acked", "-")]
    /\ sent' = <<>>
    /\ emitted' = <<>>
    /\ delivered' = <<>>
    /\ last' = "actor:ack"
    /\ UNCHANGED <<coord, pending, connect_queue, connections, lock, actor, actor_evt,
                   evt_chan, conn, ctlAttempts, ctlLink>>
    /\ UNCHANGED hist

(* ------------------------------ caller -------------------------------- *)

\* Connection::disconnect(reason): requests.send(Disconnect { reason, fut }), then rx.await
ConnectionDisconnect(handle, reason) ==
    /\ conn[handle] = "held"
    /\ actor[handle] = "alive"
    /\ ~Waiting(handle)
    /\ req' = [req EXCEPT ![handle] = ConnectionRequest("queued", reason)]
    /\ last' = "disconnect"
    /\ sent' = <<>>
    /\ emitted' = <<>>
    /\ delivered' = <<>>
    /\ UNCHANGED <<coord, pending, connect_queue, connections, lock, actor, actor_evt,
                   evt_chan, conn, ctlAttempts, ctlLink>>
    /\ UNCHANGED hist

\* the caller drops the Connection it got in ConnectSuccess (not while a
\* disconnect() borrows it)
DropConnection(handle) ==
    /\ conn[handle] = "held"
    /\ ~Waiting(handle)
    /\ conn' = [conn EXCEPT ![handle] = "dropped"]
    /\ last' = "drop"
    /\ sent' = <<>>
    /\ emitted' = <<>>
    /\ delivered' = <<>>
    /\ UNCHANGED <<coord, pending, connect_queue, connections, lock, actor, actor_evt,
                   evt_chan, req, ctlAttempts, ctlLink>>
    /\ UNCHANGED hist

(* ---------------------------- controller ------------------------------ *)

\* the link on handle ends: the controller frees the handle and its
\* DisconnectionComplete is put on the channel of the task registered for it
DisconnectionCompleteEvt(handle, reason) ==
    /\ ctlLink[handle] # 0
    /\ ctlLink' = [ctlLink EXCEPT ![handle] = 0]
    /\ last' = "link_down"
    /\ sent' = <<>>
    /\ emitted' = <<>>
    /\ delivered' = <<>>
    /\ IF actor[handle] = "alive"
       THEN /\ Len(evt_chan[handle]) < ChanCap
            /\ evt_chan' = [evt_chan EXCEPT ![handle] = Append(@, DisconnectionComplete(reason))]
       ELSE UNCHANGED evt_chan
    /\ UNCHANGED <<coord, pending, connect_queue, connections, lock, actor, actor_evt,
                   conn, req, ctlAttempts>>
    /\ UNCHANGED hist

Next ==
    \/ \E addr \in Address : Connect(addr)
    \/ \E addr \in Address : CancelConnect(addr)
    \/ \E addr \in Address, dir \in Direction, status \in ErrorCode, handle \in Handle \cup {0} :
          ConnectionCompleteEvt(addr, dir, status, handle)
    \/ \E addr \in Address : ConnectionRequestEvt(addr)
    \/ \E handle \in Handle : AuthenticationCompleteEvt(handle)
    \/ \E handle \in Handle : DispatchToSend(handle)
    \/ \E handle \in Handle : ActorEvent(handle)
    \/ \E handle \in Handle : ActorRemove(handle)
    \/ \E handle \in Handle : ActorRequest(handle)
    \/ \E handle \in Handle : ActorAck(handle)
    \/ \E handle \in Handle, reason \in DisconnectReason : ConnectionDisconnect(handle, reason)
    \/ \E handle \in Handle : DropConnection(handle)
    \/ \E handle \in Handle, reason \in Failures : DisconnectionCompleteEvt(handle, reason)

Spec == Init /\ [][Next]_vars

\* the Coordinator reads every ConnectionComplete the controller owes it and resumes
\* a send it is suspended on, and every run_connection task runs when it can
FairSpec ==
    /\ Spec
    /\ WF_vars(\E addr \in Address, dir \in Direction, status \in ErrorCode,
                  handle \in Handle \cup {0} : ConnectionCompleteEvt(addr, dir, status, handle))
    /\ WF_vars(\E handle \in Handle : DispatchToSend(handle))
    /\ WF_vars(\E handle \in Handle : ActorEvent(handle))
    /\ WF_vars(\E handle \in Handle : ActorRemove(handle))
    /\ WF_vars(\E handle \in Handle : ActorRequest(handle))
    /\ WF_vars(\E handle \in Handle : ActorAck(handle))

(* ------------------------------ claims -------------------------------- *)

\* C1: no CreateConnection command is sent while an earlier CreateConnection has
\* not been answered by a ConnectionComplete for its address.
C1_OneCreateOutstanding ==
    [][(\E a \in Address : Contains(sent', CreateConnection(a))) => unanswered = {}]_vars

\* C2: connect(b) processed while an attempt is pending and b is not connected puts
\* b in connect_queue, and no CreateConnection(b) is sent before the
\* ConnectionComplete of that pending attempt has been processed.
C2_QueuedBehindPending ==
    [][\A b \in Address :
          /\ (Connect(b) /\ pending # None /\ ~AddrConnected(b))
                => Contains(connect_queue', b)
          /\ Contains(sent', CreateConnection(b))
                => ~(deferred # <<>> /\ deferred[1] = b)]_vars

\* C3: an address in connect_queue does not stay there forever: it is attempted
\* (becomes the pending outgoing attempt) or leaves the queue.
C3_QueuedEventuallyAttempted ==
    \A a \in Address :
        Contains(connect_queue, a) ~> (pending = Outgoing(a) \/ ~Contains(connect_queue, a))

\* C4: a handle has a registry entry iff its run_connection task is alive.
C4_RegistryIffActorAlive ==
    \A h \in Handle : (connections[h] # NoEntry) <=> (actor[h] = "alive")

\* C5: connect(addr) for an address that has a registry entry sends nothing, leaves
\* pending, connect_queue and the registry as they are, and the Coordinator goes on.
C5_DuplicateConnectDropped ==
    [][\A a \in Address : (Connect(a) /\ AddrConnected(a))
            => /\ sent' = <<>>
               /\ UNCHANGED <<pending, connect_queue, connections>>
               /\ coord' = "running"]_vars

\* C6: cancel_connect(addr) of the pending outgoing attempt sends exactly one
\* CreateConnectionCancel(addr) and keeps pending; the next ConnectionComplete(addr)
\* emits exactly one event for addr and resets pending.
C6_CancelledAttemptResolvesOnce ==
    [][/\ \A a \in Address : (CancelConnect(a) /\ pending = Outgoing(a))
            => (sent' = <<CreateConnectionCancel(a)>> /\ pending' = pending)
       /\ \A a \in Address, d \in Direction, s \in ErrorCode, h \in Handle \cup {0} :
            (ConnectionCompleteEvt(a, d, s, h) /\ cancelled = a)
            => /\ Len(emitted') = 1
               /\ emitted'[1].addr = a
               /\ pending' = None]_vars

\* C7: cancel_connect(addr) of a queued address that is not the pending outgoing one
\* removes every occurrence of addr from connect_queue and sends no command; and a
\* CreateConnection(addr) is only ever sent by a step that processes connect(addr).
C7_CancelQueued ==
    [][\A a \in Address :
          /\ (CancelConnect(a) /\ Contains(connect_queue, a) /\ pending # Outgoing(a))
                => (~Contains(connect_queue', a) /\ sent' = <<>>)
          /\ Contains(sent', CreateConnection(a)) => Connect(a)]_vars

C7_Witness == last = "cancel:queued" /\ pending.kind = "Outgoing" /\ connect_queue # <<>>

\* C8: a ConnectionRequest(addr) is answered with exactly one command,
\* RejectConnectionRequest(addr, UnacceptableBdAddr) if addr has a registry entry and
\* AcceptConnectionRequest(addr) otherwise, and leaves the registry as it is.
C8_RequestAnswered ==
    [][\A a \in Address : ConnectionRequestEvt(a)
            => /\ connections' = connections
               /\ sent' = IF \E h \in Handle : connections[h].addr = a
                          THEN <<Command("RejectConnectionRequest", a, 0, "UnacceptableBdAddr")>>
                          ELSE <<Command("AcceptConnectionRequest", a, 0, "BecomeCentral")>>]_vars

C8_Witness ==
    /\ last = "request:reject"
    /\ Len(sent) = 1 /\ sent[1].cmd = "RejectConnectionRequest"
    /\ \E h \in Handle : connections[h].addr = sent[1].addr

\* C9: the role recorded for an established connection is Central iff the
\* ConnectionComplete answers a CreateConnection of the Coordinator, and Peripheral
\* iff it answers an accepted ConnectionRequest.
C9_RoleFollowsDirection ==
    [][\A a \in Address, d \in Direction, h \in Handle :
          (ConnectionCompleteEvt(a, d, "Success", h) /\ last' = "complete:success")
            => /\ connections'[h].role = "Central" <=> d = "local"
               /\ connections'[h].role = "Peripheral" <=> d = "remote"]_vars

\* C10: a ConnectionComplete(addr, Success, handle) that matches the pending attempt
\* emits exactly one ConnectSuccess and creates the registry entry of handle, and the
\* entry and the run_connection task exist when the ConnectSuccess is sent.
C10_SuccessRegistersOnce ==
    [][\A a \in Address, d \in Direction, h \in Handle :
          (ConnectionCompleteEvt(a, d, "Success", h) /\ RoleOf(pending, a) # "panic")
            => /\ Len(emitted') = 1
               /\ emitted'[1].evt = "ConnectSuccess" /\ emitted'[1].handle = h
               /\ connections[h] = NoEntry /\ connections'[h] # NoEntry
               /\ actor'[h] = "alive"]_vars

C12_DisconnectionRemovesAndReports ==
    [][\A h \in Handle : ActorRemove(h)
          => /\ connections[h] # NoEntry
             /\ connections'[h] = NoEntry
             /\ delivered' = <<[evt |-> "Disconnected", handle |-> h, reason |-> actor_evt[h]]>>
             /\ actor'[h] # "alive"]_vars

\* C13: the task of handle h answers a disconnect(reason) by sending a Disconnect
\* command with connection_handle h and that reason, and only then acknowledges; the
\* acknowledgment is issued while the task has delivered no Disconnected, it does
\* not wait for one, and once Disconnected is delivered no acknowledgment is due.
C13_DisconnectCommandThenAck ==
    [][\A h \in Handle :
          /\ (req'[h].state = "taken" /\ req[h].state # "taken")
                => /\ req[h].state = "queued"
                   /\ sent' = <<Command("Disconnect", 0, h, req[h].reason)>>
          /\ (req'[h].state = "acked" /\ req[h].state # "acked")
                => /\ req[h].state = "taken"
                   /\ actor[h] = "alive" /\ actor'[h] = "alive"
                   /\ delivered' = <<>>
          /\ req[h].state = "taken" => ENABLED ActorAck(h)
          /\ (Len(delivered') = 1 /\ delivered'[1].evt = "Disconnected"
                                  /\ delivered'[1].handle = h)
                => req'[h].state \notin {"queued", "taken"}]_vars

C13_Witness ==
    /\ last = "actor:ack"
    /\ \E h \in Handle : /\ req[h].state = "acked"
                         /\ evt_chan[h] # <<>>
                         /\ Head(evt_chan[h]).evt = "DisconnectionComplete"

\* C14: a ConnectionComplete whose address is not that of the pending attempt ends
\* the Coordinator in a failed state: that step emits no Event, sends no command and
\* leaves the registry alone, and from then on the Coordinator stays failed, emits
\* nothing, sends nothing and adds no registry entry.
C14_MismatchIsFatal ==
    [][/\ \A a \in Address, d \in Direction, s \in ErrorCode, h \in Handle \cup {0} :
            (ConnectionCompleteEvt(a, d, s, h) /\ pending # Outgoing(a) /\ pending # Incoming(a))
              => /\ coord' = "panicked"
                 /\ emitted' = <<>>
                 /\ sent' = <<>>
                 /\ connections' = connections
       /\ coord = "panicked"
              => /\ coord' = "panicked"
                 /\ emitted' = <<>>
                 /\ UNCHANGED <<pending, connect_queue>>
                 /\ \A i \in 1..Len(sent') : sent'[i].cmd = "Disconnect"
                 /\ \A h \in Handle : connections'[h] \in {connections[h], NoEntry}]_vars

C14_Witness ==
    /\ last = "complete:nomatch"
    /\ coord = "panicked"
    /\ emitted = <<>> /\ sent = <<>>

\* C15: a ConnectFail is only emitted for a ConnectionComplete that answers a
\* CreateConnection of the Coordinator while the pending attempt is outgoing, never
\* for the completion of a remote ConnectionRequest.
C15_ConnectFailOnlyLocal ==
    [][\A a \in Address, d \in Direction, s \in ErrorCode, h \in Handle \cup {0} :
          (ConnectionCompleteEvt(a, d, s, h) /\ Len(emitted') = 1
                                             /\ emitted'[1].evt = "ConnectFail")
            => (d = "local" /\ pending.kind = "Outgoing")]_vars

\* C16: an AuthenticationComplete(handle) whose handle is registered is put on the
\* channel of its task (at once, or when the suspended send resumes), the task turns
\* it into exactly one ConnectionEvent::AuthenticationComplete, and neither step
\* changes the registry or ends a task; for an unregistered handle the event is
\* dropped: pending, connect_queue and the registry stay and no command is sent.
C16_AuthenticationForwarded ==
    [][\A h \in Handle :
          /\ (AuthenticationCompleteEvt(h) /\ connections[h] # NoEntry)
                => /\ \/ evt_chan'[h] = Append(evt_chan[h], AuthenticationComplete)
                      \/ coord' = "sending"
                   /\ coord' # "panicked"
                   /\ UNCHANGED <<connections, actor>>
          /\ DispatchToSend(h)
                => /\ evt_chan'[h] = Append(evt_chan[h], AuthenticationComplete)
                   /\ coord' = "running"
                   /\ UNCHANGED <<connections, actor>>
          /\ (ActorEvent(h) /\ Head(evt_chan[h]).evt = "AuthenticationComplete")
                => /\ delivered' = <<[evt |-> "AuthenticationComplete", handle |-> h,
                                      reason |-> "-"]>>
                   /\ UNCHANGED <<connections, actor>>
          /\ (AuthenticationCompleteEvt(h) /\ connections[h] = NoEntry)
                => /\ UNCHANGED <<pending, connect_queue, connections, evt_chan>>
                   /\ sent' = <<>>]_vars

\* C17: no task is suspended on a channel send while it holds the connections lock:
\* the lock is free whenever the Coordinator waits in dispatch_to, so a task that
\* has read its DisconnectionComplete can always take the lock.
C17_LockNotHeldAcrossSend ==
    /\ coord = "sending" => lock = 0
    /\ \A h \in Handle : actor_evt[h] # "-" => lock = 0

\* C18: with a controller that reports ConnectionComplete once per attempt it knows
\* of, every ConnectionComplete(addr) finds pending = Outgoing(addr) or
\* Incoming(addr): the "No prior connection request" panic is never reached.
C18_NoPriorRequestUnreachable ==
    [][\A a \in Address, d \in Direction, s \in ErrorCode, h \in Handle \cup {0} :
          ConnectionCompleteEvt(a, d, s, h) => pending \in {Outgoing(a), Incoming(a)}]_vars

\* C19: whenever the Coordinator inserts the registry entry of a newly completed
\* handle, the registry has no entry for that handle.
C19_InsertFindsNoEntry ==
    [][\A a \in Address, d \in Direction, h \in Handle :
          (ConnectionCompleteEvt(a, d, "Success", h) /\ pending \in {Outgoing(a), Incoming(a)})
            => connections[h] = NoEntry]_vars

\* C20: a disconnect request a caller has issued is eventually acknowledged.
C20_DisconnectEventuallyAcked ==
    \A h \in Handle : (req[h].state = "queued") ~> (req[h].state = "acked")

====
